---- MODULE Spec2Model ----
(***************************************************************************)
(* The route store of rest_project (package routes, src/main.go 219-472):  *)
(* an in-memory weighted directed graph of named locations, guarded by one *)
(* sync.Mutex and written through to a redis backend (one set of location  *)
(* names, one hash of destination -> weight per location), and rebuilt     *)
(* from the backend by Restore when the server process starts.             *)
(*                                                                         *)
(* Handler goroutines are the processes.  A step of a process runs from    *)
(* one blocking point (rs.Lock(), a redis.Do call) to the next.            *)
(***************************************************************************)
EXTENDS Integers, Sequences, FiniteSets, TLC

\* ------------------------------------------------------------ bounds
MaxNames == 2
MaxWeight == 2
MaxRoutes == 2
NumProcs == 2
MaxFailures == 1
MaxSoloNames == 3
MaxPathNames == 3
MaxPathWeight == 2
MaxPathEdges == 4

NameList == <<"A", "B", "C", "D", "E">>
\* two names that Location.ID gives one identifier (in the bits kept here)
CollidingNames == {"DXY", "FJA"}
AllNames == {NameList[i] : i \in 1..Len(NameList)} \cup CollidingNames
Names == {NameList[i] : i \in 1..MaxNames}
SoloNames == {NameList[i] : i \in 1..MaxSoloNames}
PathNames == {NameList[i] : i \in 1..MaxPathNames}
PathWeights == {-1} \cup (0..MaxPathWeight)
Weights == 1..MaxWeight
Procs == 1..NumProcs

\* ------------------------------------------------------------ helpers
EmptyMap == <<>>

Put(f, k, v) == [x \in DOMAIN f \cup {k} |-> IF x = k THEN v ELSE f[x]]

Drop(f, K) == [x \in DOMAIN f \ K |-> f[x]]

\* ------------------------------------------------------------ Location.ID
\* hash/fnv New64 is FNV-1: for each byte, multiply by the prime, then xor
\* the byte.  Multiplication and xor commute with truncation, so the model
\* carries the low 16 bits of the 64-bit hash: two names whose truncated
\* identifiers differ have different identifiers in the program.
HashMod == 65536
FNVOffset == 8997
FNVPrime == 435

NameBytes(name) ==
  CASE name = "A" -> <<65>>
    [] name = "B" -> <<66>>
    [] name = "C" -> <<67>>
    [] name = "D" -> <<68>>
    [] name = "E" -> <<69>>
    [] name = "DXY" -> <<68, 88, 89>>
    [] name = "FJA" -> <<70, 74, 65>>
    [] OTHER -> <<>>

RECURSIVE BitXor(_, _)
BitXor(a, b) ==
  IF a = 0 THEN b
  ELSE IF b = 0 THEN a
  ELSE (((a % 2) + (b % 2)) % 2) + 2 * BitXor(a \div 2, b \div 2)

RECURSIVE HashWrite(_, _)
HashWrite(h, bytes) ==
  IF bytes = <<>> THEN h
  ELSE HashWrite(BitXor((h * FNVPrime) % HashMod, Head(bytes)), Tail(bytes))

ID(name) == HashWrite(FNVOffset, NameBytes(name))

IDTable == [n \in AllNames |-> ID(n)]

\* ------------------------------------------------------------ the graph
\* simple.WeightedDirectedGraph: nodes by identifier, edges by the pair of
\* identifiers of their ends.
NewGraph == [nodes |-> EmptyMap, edges |-> EmptyMap]

Node(g, id) == id \in DOMAIN g.nodes

\* AddNode panics on an identifier already present; the callers test first.
AddNode(g, name) == [g EXCEPT !.nodes = Put(g.nodes, IDTable[name], name)]

\* SetWeightedEdge adds (or replaces) both end nodes, then the edge.
\* It panics when both ends have the same identifier.
SetWeightedEdgePanics(from, to) == IDTable[from] = IDTable[to]

\* (mutant) SetWeightedEdge that keeps the weight of an edge already there
SetWeightedEdgeKeepsWeight(g, from, to, w) ==
  [nodes |-> Put(Put(g.nodes, IDTable[from], from), IDTable[to], to),
   edges |-> IF <<IDTable[from], IDTable[to]>> \in DOMAIN g.edges
             THEN g.edges
             ELSE Put(g.edges, <<IDTable[from], IDTable[to]>>, w)]

SetWeightedEdge(g, from, to, w) ==
  [nodes |-> Put(Put(g.nodes, IDTable[from], from), IDTable[to], to),
   edges |-> Put(g.edges, <<IDTable[from], IDTable[to]>>, w)]

RemoveEdge(g, fid, tid) == [g EXCEPT !.edges = Drop(g.edges, {<<fid, tid>>})]

RemoveNode(g, id) ==
  [nodes |-> Drop(g.nodes, {id}),
   edges |-> Drop(g.edges, {e \in DOMAIN g.edges : e[1] = id \/ e[2] = id})]

\* graph.Nodes(), each converted back to its name
NodeNames(g) == {g.nodes[i] : i \in DOMAIN g.nodes}

\* graph.From(id), each converted back to its name
From(g, id) == {g.nodes[e[2]] : e \in {x \in DOMAIN g.edges : x[1] = id}}

\* ------------------------------------------------------------ the backend
\* redigo writes a float64 argument with strconv.AppendFloat(_, 'g', -1, 64)
\* and getEdges reads it back with strconv.ParseFloat.  Weights are whole
\* numbers here; their text is the string of their decimal digits, after a
\* minus sign when negative.
DigitChars == <<"0", "1", "2", "3", "4", "5", "6", "7", "8", "9">>

RECURSIVE FormatFloat(_)
FormatFloat(w) ==
  IF w < 0 THEN <<"-">> \o FormatFloat(0 - w)
  ELSE IF w < 10 THEN <<DigitChars[w + 1]>>
  ELSE FormatFloat(w \div 10) \o <<DigitChars[(w % 10) + 1]>>

IsDigit(c) == \E d \in 1..10 : DigitChars[d] = c

DigitVal(c) == (CHOOSE d \in 1..10 : DigitChars[d] = c) - 1

RECURSIVE ParseDigits(_, _)
ParseDigits(acc, s) ==
  IF s = <<>> THEN acc
  ELSE ParseDigits(10 * acc + DigitVal(Head(s)), Tail(s))

\* [err, val]: err is TRUE for text that is no number
ParseFloat(s) ==
  LET digits == IF s # <<>> /\ Head(s) = "-" THEN Tail(s) ELSE s
  IN IF digits # <<>> /\ \A i \in 1..Len(digits) : IsDigit(digits[i])
     THEN [err |-> FALSE,
           val |-> IF digits = s THEN ParseDigits(0, s)
                   ELSE 0 - ParseDigits(0, digits)]
     ELSE [err |-> TRUE, val |-> 0]

\* key rest_project:locations (a set) and one hash per location name
NewBackend == [locations |-> {}, hashes |-> [n \in AllNames |-> EmptyMap]]

SADD(b, member) == [b EXCEPT !.locations = @ \cup {member}]

SREM(b, member) == [b EXCEPT !.locations = @ \ {member}]

HSET(b, key, field, w) ==
  [b EXCEPT !.hashes[key] = Put(@, field, FormatFloat(w))]

HDEL(b, key, field) == [b EXCEPT !.hashes[key] = Drop(@, {field})]

SMEMBERS(b) == b.locations

HGETALL(b, key) == b.hashes[key]

\* ------------------------------------------------------------ Restore
\* Restore and NewRouteServer, given the set f of the backend calls that
\* fail: <<"SMEMBERS">>, <<"HGETALL", loc>>, <<"SADD", loc>> and
\* <<"HSET", loc, field>>.  err is "nil", "read", "parse" or "panic".

\* getEdges: HGETALL, every value parsed; [err, val]
getEdges(b, loc, f) ==
  LET stringMap == HGETALL(b, loc)
  IN IF <<"HGETALL", loc>> \in f
     THEN [err |-> "read", val |-> EmptyMap]
     ELSE IF \E k \in DOMAIN stringMap : ParseFloat(stringMap[k]).err
     THEN [err |-> "parse", val |-> EmptyMap]
     ELSE [err |-> "nil",
           val |-> [k \in DOMAIN stringMap |-> ParseFloat(stringMap[k]).val]]

\* The loop of AddRoutes over the entries of routes, as Restore runs it:
\* each entry other than name itself becomes an edge of the graph and a
\* field of the hash of name, until an HSET fails.  st is
\* [graph, backend, err, failed], err "write" after a failed HSET.
RECURSIVE SetRoutes(_, _, _, _)
SetRoutes(st, name, routes, f) ==
  IF DOMAIN routes = {} THEN st
  ELSE LET to == CHOOSE t \in DOMAIN routes : TRUE
           rest == Drop(routes, {to})
           set == [st EXCEPT !.graph = SetWeightedEdge(@, name, to, routes[to])]
       IN IF name = to THEN SetRoutes(st, name, rest, f)
          ELSE IF SetWeightedEdgePanics(name, to)
          THEN [st EXCEPT !.err = "panic"]
          ELSE IF <<"HSET", name, to>> \in f
          THEN [set EXCEPT !.err = "write",
                           !.failed = @ \cup {<<"HSET", name, to>>}]
          ELSE SetRoutes([set EXCEPT !.backend = HSET(@, name, to, routes[to])],
                         name, rest, f)

\* First loop of Restore: AddLocation(loc, nil), its error dropped, then
\* getEdges(loc).  st is [graph, backend, routes, err, store, failed]: store
\* is "ret" while Restore would return its store and "nil" once it returns
\* nil, failed the failing calls made.
RECURSIVE RestoreLocations(_, _, _)
RestoreLocations(st, locs, f) ==
  IF locs = {} THEN st
  ELSE LET loc == CHOOSE l \in locs : TRUE
           node == [st EXCEPT !.graph = AddNode(@, loc)]
           added == IF Node(st.graph, IDTable[loc]) THEN st
                    ELSE IF <<"SADD", loc>> \in f
                    THEN [node EXCEPT !.failed = @ \cup {<<"SADD", loc>>}]
                    ELSE [node EXCEPT !.backend = SADD(@, loc)]
           edges == getEdges(added.backend, loc, f)
       IN IF edges.err # "nil"
          THEN [added EXCEPT !.err = edges.err, !.store = "nil",
                             !.failed = IF edges.err = "read"
                                        THEN @ \cup {<<"HGETALL", loc>>}
                                        ELSE @]
          ELSE RestoreLocations(
                 [added EXCEPT !.routes = Put(@, loc, edges.val)],
                 locs \ {loc}, f)

\* Second loop of Restore: AddRoutes(from, connected) for every entry; when
\* it returns an error, "return nil, err" with the err of the last getEdges,
\* which is nil.
RECURSIVE RestoreRoutes(_, _, _)
RestoreRoutes(st, froms, f) ==
  IF froms = {} THEN st
  ELSE LET from == CHOOSE x \in froms : TRUE
           done == SetRoutes([graph |-> st.graph, backend |-> st.backend,
                              err |-> "nil", failed |-> st.failed],
                             from, st.routes[from], f)
           after == [st EXCEPT !.graph = done.graph, !.backend = done.backend,
                               !.failed = done.failed]
       IN IF ~Node(st.graph, IDTable[from])
          THEN [st EXCEPT !.store = "nil"]
          ELSE IF done.err = "panic"
          THEN [after EXCEPT !.err = "panic", !.store = "nil"]
          ELSE IF done.err # "nil"
          THEN [after EXCEPT !.store = "nil"]
          ELSE RestoreRoutes(after, froms \ {from}, f)

RestoreFailing(b, f) ==
  LET ret == [graph |-> NewGraph, backend |-> b, routes |-> EmptyMap,
              err |-> "nil", store |-> "ret", failed |-> {}]
      first == RestoreLocations(ret, SMEMBERS(b), f)
  IN IF <<"SMEMBERS">> \in f
     THEN [ret EXCEPT !.err = "read", !.failed = {<<"SMEMBERS">>}]
     ELSE IF first.err # "nil" THEN first
     ELSE RestoreRoutes(first, DOMAIN first.routes, f)

\* Restore with every backend call succeeding
Restore(b) == RestoreFailing(b, {})

\* (mutant) NewRouteServer without "if err != nil { panic(err) }"
NewRouteServerNoPanic(b, f) ==
  LET st == RestoreFailing(b, f)
  IN [server |-> IF st.store = "nil" THEN "nil" ELSE "up",
      graph |-> IF st.store = "nil" THEN NewGraph ELSE st.graph,
      backend |-> st.backend, err |-> st.err, failed |-> st.failed]

\* NewRouteServer: panics on an error of Restore, else serves with the
\* store returned, nil or not.  [server, graph, backend, err, failed]
NewRouteServer(b, f) ==
  LET st == RestoreFailing(b, f)
      server == IF st.err # "nil" THEN "aborted"
                ELSE IF st.store = "nil" THEN "nil" ELSE "up"
  IN [server |-> server,
      graph |-> IF server = "up" THEN st.graph ELSE NewGraph,
      backend |-> st.backend, err |-> st.err, failed |-> st.failed]

\* the backend calls Restore makes on the backend b
RestoreCalls(b) ==
  {<<"SMEMBERS">>}
  \cup {<<"HGETALL", loc>> : loc \in SMEMBERS(b)}
  \cup {<<"SADD", loc>> : loc \in SMEMBERS(b)}
  \cup UNION {{<<"HSET", loc, to>> : to \in DOMAIN HGETALL(b, loc) \ {loc}} :
               loc \in SMEMBERS(b)}

\* ------------------------------------------------------------ state
VARIABLES
  graph,     \* rs.graph
  backend,   \* what the redis connection rs.redis talks to
  lock,      \* the sync.Mutex of the store: 0 when free, else its holder
  pc,        \* where each handler goroutine is
  op,        \* the call each goroutine is in, with what is left of its loops,
             \* the routes it was given, and the edges and hashes it found
  last,      \* the call that returned last and what it returned,
             \* [op, name, err, val], until the next one takes the mutex
  failures,  \* backend calls that failed so far
  server     \* the server process: "up" with the store NewRouteServer
             \* built, "nil" up with a nil store, "aborted" by its panic,
             \* "down" before its first start

vars == <<graph, backend, lock, pc, op, last, failures, server>>

\* the maps of routes and the lists of destinations a client may send, over
\* the names N and the weights W
RouteMapsOf(N, W) ==
  {f \in UNION {[S -> W] : S \in SUBSET N} : Cardinality(DOMAIN f) <= MaxRoutes}

RemoveListsOf(N) == UNION {[1..k -> N] : k \in 0..MaxRoutes}

RouteMaps == RouteMapsOf(Names, Weights)

RemoveLists == RemoveListsOf(Names)

Call(kind, name, to, routes, list) ==
  [kind |-> kind, name |-> name, to |-> to, routes |-> routes, list |-> list,
   locs |-> {}, given |-> routes, before |-> EmptyMap]

NoOp == Call("none", "", "", EmptyMap, <<>>)

\* the calls a client may make
RequestsOf(N, maps, lists) ==
  {Call("AddLocation", n, "", r, <<>>) : n \in N, r \in maps}
  \cup {Call("GetLocations", "", "", EmptyMap, <<>>)}
  \cup {Call("RoutesFrom", n, "", EmptyMap, <<>>) : n \in N}
  \cup {Call("RoutesBetween", n, t, EmptyMap, <<>>) : n \in N, t \in N}
  \cup {Call("AddRoutes", n, "", r, <<>>) : n \in N, r \in maps}
  \cup {Call("RemoveRoutes", n, "", EmptyMap, l) : n \in N, l \in lists}
  \cup {Call("DeleteLocation", n, "", EmptyMap, <<>>) : n \in N}

Requests == RequestsOf(Names, RouteMaps, RemoveLists)

NoLast == [op |-> "none", name |-> "", err |-> "nil", val |-> {}]

Mutating == {"AddLocation", "AddRoutes", "RemoveRoutes", "DeleteLocation"}

\* the first statement of each operation after rs.Lock()
Entry(kind) ==
  CASE kind = "AddLocation" -> "al_check"
    [] kind = "GetLocations" -> "gl_body"
    [] kind = "RoutesFrom" -> "rf_body"
    [] kind = "RoutesBetween" -> "rb_body"
    [] kind = "AddRoutes" -> "ar_check"
    [] kind = "RemoveRoutes" -> "rr_check"
    [] kind = "DeleteLocation" -> "dl_check"

Init ==
  /\ graph = NewGraph
  /\ backend = NewBackend
  /\ lock = 0
  /\ pc = [p \in Procs |-> "idle"]
  /\ op = [p \in Procs |-> NoOp]
  /\ last = [op |-> "Restore", name |-> "", err |-> "nil", val |-> {}]
  /\ failures = 0
  /\ server = "up"

\* the handlers run while the process is up with its store
Up == server = "up" /\ UNCHANGED server

\* ------------------------------------------------------------ the mutex
\* A handler goroutine calls an operation of the store and reaches its
\* rs.Lock().  Which operation, and with what arguments, is private to the
\* goroutine until the mutex is its own: the model draws it in Lock.
Invoke(p) ==
  /\ pc[p] = "idle"
  /\ pc' = [pc EXCEPT ![p] = "lock"]
  /\ UNCHANGED <<graph, backend, lock, op, last, failures>>
  /\ Up

\* The call r as it starts: AddLocation and AddRoutes with the edges and
\* hashes as they are when the mutex is taken (kept to compare with, the
\* program does not read them).
Found(r) ==
  IF r.kind \in {"AddLocation", "AddRoutes"}
  THEN [r EXCEPT !.before = [edges |-> graph.edges, hashes |-> backend.hashes]]
  ELSE r

\* what a successful AddLocation or AddRoutes leaves in last.val: the routes
\* it was given and the edges and hashes it found
Given(p) == [given |-> op[p].given, before |-> op[p].before]

\* sync.Mutex.Lock returns: at the head of an operation, one of the calls in
\* requests, or in the call of GetLocations that DeleteLocation makes.
LockFor(p, requests) ==
  /\ pc[p] \in {"lock", "dl_getlocations"}
  /\ lock = 0
  /\ lock' = p
  /\ IF pc[p] = "lock"
     THEN \E r \in requests :
            /\ op' = [op EXCEPT ![p] = Found(r)]
            /\ pc' = [pc EXCEPT ![p] = Entry(r.kind)]
     ELSE /\ pc' = [pc EXCEPT ![p] = "gl_body"]
          /\ UNCHANGED op
  /\ last' = NoLast
  /\ UNCHANGED <<graph, backend, failures>>
  /\ Up

\* (mutant) an operation that does not wait for the mutex to be free
LockWithoutWaiting(p) ==
  /\ pc[p] \in {"lock", "dl_getlocations"}
  /\ lock' = p
  /\ IF pc[p] = "lock"
     THEN \E r \in Requests :
            /\ op' = [op EXCEPT ![p] = Found(r)]
            /\ pc' = [pc EXCEPT ![p] = Entry(r.kind)]
     ELSE /\ pc' = [pc EXCEPT ![p] = "gl_body"]
          /\ UNCHANGED op
  /\ last' = NoLast
  /\ UNCHANGED <<graph, backend, failures>>
  /\ Up

Lock(p) == LockFor(p, Requests)

\* return val, err, and the deferred rs.Unlock() (which ends the process
\* with a fatal error when the mutex is not locked)
ReturnValue(p, val, err) ==
  /\ pc' = [pc EXCEPT ![p] = "idle"]
  /\ op' = [op EXCEPT ![p] = NoOp]
  /\ lock' = 0
  /\ last' = [op |-> op[p].kind, name |-> op[p].name,
              err |-> IF lock = 0 THEN "fatal" ELSE err, val |-> val]

Return(p, err) == ReturnValue(p, {}, err)

Goto(p, label) ==
  /\ pc' = [pc EXCEPT ![p] = label]
  /\ UNCHANGED <<lock, last>>

\* the outcome of one redis.Do
Do(ok) ==
  /\ ok \/ failures < MaxFailures
  /\ failures' = IF ok THEN failures ELSE failures + 1

\* ------------------------------------------------------------ AddLocation
\* (mutant) AddLocation without its test for an existing node
AddLocationNoCheck(p) ==
  /\ pc[p] = "al_check"
  /\ graph' = AddNode(graph, op[p].name)
  /\ Goto(p, "al_sadd")
  /\ UNCHANGED <<backend, op, failures>>
  /\ Up

AddLocationCheck(p) ==
  /\ pc[p] = "al_check"
  /\ IF Node(graph, IDTable[op[p].name])
     THEN /\ Return(p, "AlreadyExists")
          /\ UNCHANGED <<graph, backend, failures>>
     ELSE /\ graph' = AddNode(graph, op[p].name)
          /\ Goto(p, "al_sadd")
          /\ UNCHANGED <<backend, op, failures>>
  /\ Up

AddLocationSADD(p) ==
  /\ pc[p] = "al_sadd"
  /\ \E ok \in BOOLEAN :
       /\ Do(ok)
       /\ IF ok
          THEN /\ backend' = SADD(backend, op[p].name)
               /\ IF DOMAIN op[p].routes = {}
                  THEN ReturnValue(p, Given(p), "nil")
                  ELSE Goto(p, "al_loop") /\ UNCHANGED op
          ELSE /\ Return(p, "PersistenceFailure")
               /\ UNCHANGED backend
  /\ UNCHANGED graph
  /\ Up

\* (mutant) the loop without its test "name != to"
RoutesLoopWithSelf(p) ==
  \E to \in DOMAIN op[p].routes :
    LET name == op[p].name
        weight == op[p].routes[to]
        rest == Drop(op[p].routes, {to})
        Continue == IF DOMAIN rest = {}
                    THEN ReturnValue(p, Given(p), "nil")
                    ELSE /\ op' = [op EXCEPT ![p].routes = rest]
                         /\ UNCHANGED <<pc, lock, last>>
    IN IF SetWeightedEdgePanics(name, to)
       THEN Return(p, "panic") /\ UNCHANGED <<graph, backend, failures>>
       ELSE /\ graph' = SetWeightedEdge(graph, name, to, weight)
            /\ \E ok \in BOOLEAN :
                 /\ Do(ok)
                 /\ IF ok
                    THEN backend' = HSET(backend, name, to, weight) /\ Continue
                    ELSE /\ UNCHANGED backend
                         /\ ReturnValue(p, Given(p), "PersistenceFailure")

\* One round of "for to, weight := range routes" (the same loop in
\* AddLocation and in AddRoutes); a Go map is ranged over in any order.
RoutesLoop(p) ==
  \E to \in DOMAIN op[p].routes :
    LET name == op[p].name
        weight == op[p].routes[to]
        rest == Drop(op[p].routes, {to})
        Continue == IF DOMAIN rest = {}
                    THEN ReturnValue(p, Given(p), "nil")
                    ELSE /\ op' = [op EXCEPT ![p].routes = rest]
                         /\ UNCHANGED <<pc, lock, last>>
    IN IF name = to
       THEN Continue /\ UNCHANGED <<graph, backend, failures>>
       ELSE IF SetWeightedEdgePanics(name, to)
       THEN Return(p, "panic") /\ UNCHANGED <<graph, backend, failures>>
       ELSE /\ graph' = SetWeightedEdge(graph, name, to, weight)
            /\ \E ok \in BOOLEAN :
                 /\ Do(ok)
                 /\ IF ok
                    THEN backend' = HSET(backend, name, to, weight) /\ Continue
                    ELSE /\ UNCHANGED backend
                         /\ ReturnValue(p, Given(p), "PersistenceFailure")

AddLocationLoop(p) == pc[p] = "al_loop" /\ RoutesLoop(p) /\ Up

\* ------------------------------------------------------------ reads
\* The body of GetLocations.  Called from DeleteLocation, its result is the
\* list DeleteLocation ranges over and its deferred Unlock frees the mutex.
GetLocations(p) ==
  /\ pc[p] = "gl_body"
  /\ IF op[p].kind = "GetLocations"
     THEN ReturnValue(p, NodeNames(graph), "nil")
     ELSE /\ op' = [op EXCEPT ![p].locs = NodeNames(graph)]
          /\ pc' = [pc EXCEPT ![p] = "dl_hdel"]
          /\ lock' = 0
          /\ UNCHANGED last
  /\ UNCHANGED <<graph, backend, failures>>
  /\ Up

RoutesFrom(p) ==
  /\ pc[p] = "rf_body"
  /\ IF ~Node(graph, IDTable[op[p].name])
     THEN Return(p, "NotFound")
     ELSE ReturnValue(p, From(graph, IDTable[op[p].name]), "nil")
  /\ UNCHANGED <<graph, backend, failures>>
  /\ Up

\* path.DijkstraAllFrom(from, g) of gonum: every node reached gets its
\* distance and the set of its predecessors on paths of that distance; the
\* search panics on an edge of negative weight.  st is [dist, next, Q, panic],
\* Q the priority queue of <<node, distance>>.
Successors(g, u) == {e[2] : e \in {x \in DOMAIN g.edges : x[1] = u}}

\* the loop over g.From(mid) for the node u taken from the queue
RECURSIVE Relax(_, _, _, _)
Relax(g, st, u, vs) ==
  IF vs = {} \/ st.panic THEN st
  ELSE LET v == CHOOSE x \in vs : TRUE
           w == g.edges[<<u, v>>]
           joint == st.dist[u] + w
       IN IF w < 0 THEN [st EXCEPT !.panic = TRUE]
          ELSE IF v \notin DOMAIN st.dist \/ joint < st.dist[v]
          THEN Relax(g, [dist |-> Put(st.dist, v, joint),
                         next |-> Put(st.next, v, {u}),
                         Q |-> st.Q \cup {<<v, joint>>},
                         panic |-> FALSE], u, vs \ {v})
          ELSE IF joint = st.dist[v]
          THEN Relax(g, [st EXCEPT !.next[v] = @ \cup {u}], u, vs \ {v})
          ELSE Relax(g, st, u, vs \ {v})

RECURSIVE Dijkstra(_, _)
Dijkstra(g, st) ==
  IF st.Q = {} \/ st.panic THEN st
  ELSE LET mid == CHOOSE q \in st.Q : \A r \in st.Q : q[2] <= r[2]
           popped == [st EXCEPT !.Q = @ \ {mid}]
       IN IF mid[2] > st.dist[mid[1]] THEN Dijkstra(g, popped)
          ELSE Dijkstra(g, Relax(g, popped, mid[1], Successors(g, mid[1])))

DijkstraAllFrom(g, fid) ==
  Dijkstra(g, [dist |-> Put(EmptyMap, fid, 0), next |-> Put(EmptyMap, fid, {}),
               Q |-> {<<fid, 0>>}, panic |-> FALSE])

\* ShortestAlts.AllTo(to): the paths read backwards from to along the
\* predecessors, a node already on the path not taken again; path is the
\* part from the node "to" onwards.
RECURSIVE allTo(_, _, _, _, _)
allTo(short, fid, to, seen, path) ==
  IF fid = to THEN {path}
  ELSE UNION {allTo(short, fid, v, seen \cup {to}, <<v>> \o path) :
                v \in short.next[to] \ (seen \cup {to})}

Inf == "+Inf"

\* [paths, weight]
AllTo(short, fid, tid) ==
  IF tid \notin DOMAIN short.next \/ short.next[tid] = {}
  THEN IF fid = tid
       THEN [paths |-> {<<fid>>}, weight |-> 0]
       ELSE [paths |-> {}, weight |-> Inf]
  ELSE [paths |-> allTo(short, fid, tid, {}, <<tid>>), weight |-> short.dist[tid]]

\* (mutant) the routes of one of the paths only
RoutesOfOnePath(g, all) ==
  IF all.paths = {} THEN {}
  ELSE LET q == CHOOSE x \in all.paths : TRUE
       IN {[route |-> [i \in 1..Len(q) |-> g.nodes[q[i]]], weight |-> all.weight]}

\* the routes RoutesBetween builds from the paths: the names of the nodes
\* of each, and the weight AllTo returned
Routes(g, all) ==
  {[route |-> [i \in 1..Len(q) |-> g.nodes[q[i]]], weight |-> all.weight] :
     q \in all.paths}

\* what RoutesBetween(from, to) returns on the graph g: [err, val]
RoutesBetweenResult(g, from, to) ==
  IF ~Node(g, IDTable[from]) \/ ~Node(g, IDTable[to])
  THEN [err |-> "NotFound", val |-> {}]
  ELSE LET short == DijkstraAllFrom(g, IDTable[from])
       IN IF short.panic
          THEN [err |-> "panic", val |-> {}]
          ELSE [err |-> "nil",
                val |-> Routes(g, AllTo(short, IDTable[from], IDTable[to]))]

RoutesBetween(p) ==
  /\ pc[p] = "rb_body"
  /\ LET r == RoutesBetweenResult(graph, op[p].name, op[p].to)
     IN ReturnValue(p, r.val, r.err)
  /\ UNCHANGED <<graph, backend, failures>>
  /\ Up

\* ------------------------------------------------------------ AddRoutes
\* (mutant) AddRoutes that replaces the routes of the location: it starts
\* by removing the edges and the hash fields the location has
AddRoutesReplaces(p) ==
  /\ pc[p] = "ar_check"
  /\ IF ~Node(graph, IDTable[op[p].name])
     THEN Return(p, "NotFound") /\ UNCHANGED <<graph, backend>>
     ELSE /\ graph' = [graph EXCEPT !.edges =
                         Drop(@, {e \in DOMAIN @ : e[1] = IDTable[op[p].name]})]
          /\ backend' = [backend EXCEPT !.hashes[op[p].name] = EmptyMap]
          /\ IF DOMAIN op[p].routes = {}
             THEN ReturnValue(p, Given(p), "nil")
             ELSE Goto(p, "ar_loop") /\ UNCHANGED op
  /\ UNCHANGED failures
  /\ Up

AddRoutesCheck(p) ==
  /\ pc[p] = "ar_check"
  /\ IF ~Node(graph, IDTable[op[p].name])
     THEN Return(p, "NotFound")
     ELSE IF DOMAIN op[p].routes = {}
     THEN ReturnValue(p, Given(p), "nil")
     ELSE Goto(p, "ar_loop") /\ UNCHANGED op
  /\ UNCHANGED <<graph, backend, failures>>
  /\ Up

AddRoutesLoop(p) == pc[p] = "ar_loop" /\ RoutesLoop(p) /\ Up

\* ------------------------------------------------------------ RemoveRoutes
\* (mutant) RemoveRoutes without its test for an unknown location
RemoveRoutesNoCheck(p) ==
  /\ pc[p] = "rr_check"
  /\ IF op[p].list = <<>>
     THEN Return(p, "nil")
     ELSE Goto(p, "rr_loop") /\ UNCHANGED op
  /\ UNCHANGED <<graph, backend, failures>>
  /\ Up

RemoveRoutesCheck(p) ==
  /\ pc[p] = "rr_check"
  /\ IF ~Node(graph, IDTable[op[p].name])
     THEN Return(p, "NotFound")
     ELSE IF op[p].list = <<>>
     THEN Return(p, "nil")
     ELSE Goto(p, "rr_loop") /\ UNCHANGED op
  /\ UNCHANGED <<graph, backend, failures>>
  /\ Up

\* One round of "for _, to := range routes": HDEL, then RemoveEdge.
RemoveRoutesLoop(p) ==
  /\ pc[p] = "rr_loop"
  /\ LET name == op[p].name
         to == Head(op[p].list)
         rest == Tail(op[p].list)
         Continue == IF rest = <<>>
                     THEN Return(p, "nil")
                     ELSE /\ op' = [op EXCEPT ![p].list = rest]
                          /\ UNCHANGED <<pc, lock, last>>
     IN IF name = to
        THEN Continue /\ UNCHANGED <<graph, backend, failures>>
        ELSE \E ok \in BOOLEAN :
               /\ Do(ok)
               /\ IF ok
                  THEN /\ backend' = HDEL(backend, name, to)
                       /\ graph' = RemoveEdge(graph, IDTable[name], IDTable[to])
                       /\ Continue
                  ELSE /\ Return(p, "PersistenceFailure")
                       /\ UNCHANGED <<graph, backend>>
  /\ Up

\* ------------------------------------------------------------ DeleteLocation
DeleteLocationCheck(p) ==
  /\ IF ~Node(graph, IDTable[op[p].name])
     THEN Return(p, "NotFound")
     ELSE Goto(p, "dl_srem") /\ UNCHANGED op
  /\ UNCHANGED <<graph, backend, failures>>

\* SREM; then rs.GetLocations() is called with the mutex still held.
DeleteLocationSREM(p) ==
  /\ \E ok \in BOOLEAN :
       /\ Do(ok)
       /\ IF ok
          THEN /\ backend' = SREM(backend, op[p].name)
               /\ Goto(p, "dl_getlocations")
               /\ UNCHANGED op
          ELSE /\ Return(p, "PersistenceFailure")
               /\ UNCHANGED backend
  /\ UNCHANGED graph

\* One round of "for _, loc := range rs.GetLocations()": HDEL loc name;
\* after the last one, RemoveNode and return.
DeleteLocationHDEL(p) ==
  IF op[p].locs = {}
  THEN /\ graph' = RemoveNode(graph, IDTable[op[p].name])
       /\ Return(p, "nil")
       /\ UNCHANGED <<backend, failures>>
  ELSE \E loc \in op[p].locs, ok \in BOOLEAN :
         /\ Do(ok)
         /\ IF ok
            THEN /\ backend' = HDEL(backend, loc, op[p].name)
                 /\ op' = [op EXCEPT ![p].locs = @ \ {loc}]
                 /\ UNCHANGED <<pc, lock, last>>
            ELSE /\ Return(p, "PersistenceFailure")
                 /\ UNCHANGED backend
         /\ UNCHANGED graph

DeleteLocation(p) ==
  /\ CASE pc[p] = "dl_check" -> DeleteLocationCheck(p)
       [] pc[p] = "dl_srem" -> DeleteLocationSREM(p)
       [] pc[p] = "dl_hdel" -> DeleteLocationHDEL(p)
       [] OTHER -> FALSE
  /\ Up

\* ------------------------------------------------------------ restart
\* The server process is stopped (wherever its handlers are) and started
\* again: NewRouteServer builds the store with Restore.
Restart ==
  \E f \in {{}} \cup {{c} : c \in RestoreCalls(backend)} :
    LET started == NewRouteServer(backend, f)
    IN /\ failures + Cardinality(f) <= MaxFailures
       /\ started.failed = f
       /\ failures' = failures + Cardinality(f)
       /\ server' = started.server
       /\ graph' = started.graph
       /\ backend' = started.backend
       /\ lock' = 0
       /\ pc' = [p \in Procs |-> "idle"]
       /\ op' = [p \in Procs |-> NoOp]
       /\ last' = [op |-> "Restore", name |-> "", err |-> started.err, val |-> f]

\* A request that reaches a server whose store is nil: the method of the
\* store dereferences the nil pointer in rs.Lock() and the handler panics.
NilStoreCall(p) ==
  /\ server = "nil"
  /\ pc[p] = "idle"
  /\ last' = [op |-> "call", name |-> "", err |-> "panic", val |-> {}]
  /\ UNCHANGED <<graph, backend, lock, pc, op, failures, server>>

\* ------------------------------------------------------------ specification
Step(p) ==
  \/ Lock(p)
  \/ AddLocationCheck(p)
  \/ AddLocationSADD(p)
  \/ AddLocationLoop(p)
  \/ GetLocations(p)
  \/ RoutesFrom(p)
  \/ RoutesBetween(p)
  \/ AddRoutesCheck(p)
  \/ AddRoutesLoop(p)
  \/ RemoveRoutesCheck(p)
  \/ RemoveRoutesLoop(p)
  \/ DeleteLocation(p)

Next ==
  \/ \E p \in Procs : Invoke(p)
  \/ \E p \in Procs : Step(p)
  \/ \E p \in Procs : NilStoreCall(p)
  \/ Restart

Spec == Init /\ [][Next]_vars

\* One client that only adds routes, over more names: the store after
\* AddLocation(n, nil) of every name, then the AddRoutes calls of one
\* goroutine, each returned before the next is made, with a backend that has
\* no failure left.
RECURSIVE AddLocations(_, _)
AddLocations(st, locs) ==
  IF locs = {} THEN st
  ELSE LET loc == CHOOSE l \in locs : TRUE
       IN AddLocations([graph |-> AddNode(st.graph, loc),
                        backend |-> SADD(st.backend, loc)],
                       locs \ {loc})

SoloInit ==
  LET st == AddLocations([graph |-> NewGraph, backend |-> NewBackend], SoloNames)
  IN /\ graph = st.graph
     /\ backend = st.backend
     /\ lock = 0
     /\ pc = [p \in Procs |-> "idle"]
     /\ op = [p \in Procs |-> NoOp]
     /\ last = NoLast
     /\ failures = MaxFailures
     /\ server = "up"

SoloRequests ==
  {Call("AddRoutes", n, "", r, <<>>) :
     n \in SoloNames, r \in RouteMapsOf(SoloNames, Weights)}

SoloLock == LockFor(1, SoloRequests)

SoloNext ==
  \/ Invoke(1)
  \/ SoloLock
  \/ AddRoutesCheck(1)
  \/ AddRoutesLoop(1)

SoloSpec == SoloInit /\ [][SoloNext]_vars

\* One client that sets edges of any weight, one at a time, and asks for the
\* routes between two locations: the store after AddLocation(n, nil) of every
\* name, then its AddRoutes and RoutesBetween calls, with a backend that has
\* no failure left.
PathInit ==
  LET st == AddLocations([graph |-> NewGraph, backend |-> NewBackend], PathNames)
  IN /\ graph = st.graph
     /\ backend = st.backend
     /\ lock = 0
     /\ pc = [p \in Procs |-> "idle"]
     /\ op = [p \in Procs |-> NoOp]
     /\ last = NoLast
     /\ failures = MaxFailures
     /\ server = "up"

PathRequests ==
  {Call("RoutesBetween", n, t, EmptyMap, <<>>) : n \in PathNames, t \in PathNames}
  \cup IF Cardinality(DOMAIN graph.edges) < MaxPathEdges
       THEN {Call("AddRoutes", n, "", Put(EmptyMap, t, w), <<>>) :
               n \in PathNames, t \in PathNames, w \in PathWeights}
       ELSE {}

PathLock == LockFor(1, PathRequests)

PathNext ==
  \/ Invoke(1)
  \/ PathLock
  \/ AddRoutesCheck(1)
  \/ AddRoutesLoop(1)
  \/ RoutesBetween(1)

PathSpec == PathInit /\ [][PathNext]_vars

\* The clients of Spec, sending two names that have one identifier.
CollisionRequests ==
  RequestsOf(CollidingNames, RouteMapsOf(CollidingNames, Weights),
             RemoveListsOf(CollidingNames))

CollisionLock(p) == LockFor(p, CollisionRequests)

CollisionStep(p) ==
  \/ CollisionLock(p)
  \/ AddLocationCheck(p)
  \/ AddLocationSADD(p)
  \/ AddLocationLoop(p)
  \/ GetLocations(p)
  \/ RoutesFrom(p)
  \/ RoutesBetween(p)
  \/ AddRoutesCheck(p)
  \/ AddRoutesLoop(p)
  \/ RemoveRoutesCheck(p)
  \/ RemoveRoutesLoop(p)
  \/ DeleteLocation(p)

CollisionNext ==
  \/ \E p \in Procs : Invoke(p)
  \/ \E p \in Procs : CollisionStep(p)
  \/ Restart

CollisionSpec == Init /\ [][CollisionNext]_vars

\* The server process started, and started again, on a backend that holds
\* any set of names and any hashes: fields whose text is a number and
\* fields whose text is none (written by another client of the redis).
RestoreValues == {FormatFloat(1), <<"x">>}

RestoreBackends ==
  LET hashes == UNION {[S -> RestoreValues] : S \in SUBSET Names}
  IN {[locations |-> L,
       hashes |-> [n \in AllNames |-> IF n \in Names THEN h[n] ELSE EmptyMap]] :
        L \in SUBSET Names, h \in [Names -> hashes]}

RestoreInit ==
  /\ graph = NewGraph
  /\ backend \in RestoreBackends
  /\ lock = 0
  /\ pc = [p \in Procs |-> "idle"]
  /\ op = [p \in Procs |-> NoOp]
  /\ last = NoLast
  /\ failures = 0
  /\ server = "down"

RestoreNext == Restart

RestoreSpec == RestoreInit /\ [][RestoreNext]_vars

\* ------------------------------------------------------------ observations
\* what GetLocations and RoutesFrom return
GetLocationsResult == NodeNames(graph)

RoutesFromResult(name) == From(graph, IDTable[name])

\* the outbound edges of name in memory, by the name of their destination
OutEdges(name) ==
  LET out == {e \in DOMAIN graph.edges : e[1] = IDTable[name]}
  IN [to \in {graph.nodes[e[2]] : e \in out} |->
        graph.edges[<<IDTable[name], IDTable[to]>>]]

\* What the HTTP handler of the call "kind" does when the store returns err:
\* the status it writes and the text of its http.Error, or "panic".  The
\* handlers of AddRoutes and RemoveRoutes call err.Error() on the err of
\* mime.ParseMediaType, which is nil once the handler has come that far.
Response(kind, err) ==
  IF err \in {"panic", "fatal"} THEN [status |-> "panic", text |-> ""]
  ELSE IF err = "nil" THEN [status |-> "200", text |-> ""]
  ELSE IF kind \in {"AddRoutes", "RemoveRoutes"}
  THEN [status |-> "panic", text |-> ""]
  ELSE [status |-> "400", text |-> err]

\* the response to the call that returned last
HandlerResponse == Response(last.op, last.err)

\* process p takes a step of its operation (no restart, no other process)
Steps(p) == pc'[p] # pc[p] /\ last'.op # "Restore"

\* a mutating operation has just returned nil and nothing has run since
AfterSuccess == lock = 0 /\ last.op \in Mutating /\ last.err = "nil"

\* DeleteLocation found its location, SREM succeeded, and the call has no
\* step left that it can take
DeleteStopped(p) ==
  /\ op[p].kind = "DeleteLocation"
  /\ pc[p] \notin {"dl_check", "dl_srem"}
  /\ ~ENABLED Step(p)

\* ------------------------------------------------------------ claims
\* C1: every started operation returns with the mutex free: whoever holds
\* the mutex can always take its next step (every backend call returning),
\* so the mutex is never leaked.
C1_LockNeverLeaked == \A p \in Procs : lock = p => ENABLED Step(p)

\* C2: DeleteLocation(B) on a known B ends with B out of GetLocations and
\* out of RoutesFrom(X) for every remaining X.
C2_DeleteRemovesNode ==
  \A p \in Procs :
    DeleteStopped(p) =>
      /\ op[p].name \notin GetLocationsResult
      /\ \A x \in GetLocationsResult : op[p].name \notin RoutesFromResult(x)

\* C3: DeleteLocation(name) ends with nothing of name in the backend: not in
\* the set of names, not a field of another location's hash, and no hash of
\* its own.
C3_DeleteCleansBackend ==
  \A p \in Procs :
    DeleteStopped(p) =>
      /\ op[p].name \notin SMEMBERS(backend)
      /\ \A k \in Names \ {op[p].name} : op[p].name \notin DOMAIN HGETALL(backend, k)
      /\ HGETALL(backend, op[p].name) = EmptyMap

\* C4: after every successful mutating operation (no backend call having
\* failed) the backend's set of names is the set of nodes in memory.
C4_NamesMirrored ==
  (AfterSuccess /\ failures = 0) => SMEMBERS(backend) = GetLocationsResult

\* C5: after every successful mutating operation (no backend call having
\* failed) the hash of the location it was called on holds exactly that
\* location's outbound edges in memory, weight for weight.
C5_EdgesMirrored ==
  (AfterSuccess /\ failures = 0) =>
    /\ getEdges(backend, last.name, {}).err = "nil"
    /\ getEdges(backend, last.name, {}).val = OutEdges(last.name)

\* C6: with no operation running and no backend call having failed, Restore
\* on the backend yields the graph that is in memory.
C6_RestoreRoundTrip ==
  (lock = 0 /\ failures = 0) =>
    /\ Restore(backend).err = "nil"
    /\ Restore(backend).graph = graph

\* C7: operations are serialized: a process that is past rs.Lock() and has
\* not returned holds the mutex (so at most one is, and every statement that
\* reads the graph runs under the mutex), and the graph and the backend
\* change only in a step of the holder of the mutex, while no other process
\* is inside an operation.  The steps of one operation are then consecutive
\* among the steps that touch the store: the state is that of running the
\* operations one after the other, in the order they took the mutex.
InOperation(p) == pc[p] \notin {"idle", "lock"}

MutualExclusion == \A p \in Procs : InOperation(p) => lock = p

LockedAccess ==
  (graph' # graph \/ backend' # backend) =>
    \/ last'.op = "Restore"
    \/ /\ lock \in Procs
       /\ InOperation(lock)
       /\ \A q \in Procs \ {lock} : ~InOperation(q) /\ ~InOperation(q)'

C7_Serialized == [][MutualExclusion /\ MutualExclusion' /\ LockedAccess]_vars

C7_Witness ==
  \E p, q \in Procs :
    /\ p # q
    /\ pc[p] = "ar_loop" /\ lock = p
    /\ pc[q] = "lock"
    /\ graph.edges # EmptyMap

\* C8: AddLocation on a name that is already a node returns AlreadyExists
\* and changes neither the graph nor the backend, whatever its routes.
C8_AlreadyExists ==
  [][\A p \in Procs :
       (pc[p] = "al_check" /\ op[p].name \in GetLocationsResult /\ Steps(p)) =>
         /\ last' = [op |-> "AddLocation", name |-> op[p].name,
                     err |-> "AlreadyExists", val |-> {}]
         /\ pc'[p] = "idle"
         /\ graph' = graph
         /\ backend' = backend
         /\ failures' = failures]_vars

C8_Witness ==
  /\ last.op = "AddLocation"
  /\ last.err = "AlreadyExists"
  /\ last.name \in SMEMBERS(backend)
  /\ lock = 0

UnknownName(p) ==
  \/ /\ pc[p] \in {"rf_body", "ar_check", "rr_check", "dl_check"}
     /\ op[p].name \notin GetLocationsResult
  \/ /\ pc[p] = "rb_body"
     /\ (op[p].name \notin GetLocationsResult \/ op[p].to \notin GetLocationsResult)

C10_NotFound ==
  [][\A p \in Procs :
       (UnknownName(p) /\ Steps(p)) =>
         /\ last' = [op |-> op[p].kind, name |-> op[p].name,
                     err |-> "NotFound", val |-> {}]
         /\ pc'[p] = "idle"
         /\ graph' = graph
         /\ backend' = backend
         /\ failures' = failures]_vars

C10_Witness ==
  /\ last.op = "RemoveRoutes"
  /\ last.err = "NotFound"
  /\ last.name \notin GetLocationsResult
  /\ GetLocationsResult # {}

\* ------------------------------------------------------------ C11
\* an AddLocation or AddRoutes that returned without error
Added ==
  /\ lock = 0
  /\ last.op \in {"AddLocation", "AddRoutes"}
  /\ last.err = "nil"

\* the weight the backend holds for the edge from -> to
HashWeight(from, to) == ParseFloat(backend.hashes[from][to]).val

\* the entry for "to" of the routes given to the call that returned last
\* is an edge of the graph and a field of the hash, with the weight given
Applied(to) ==
  /\ to \in DOMAIN OutEdges(last.name)
  /\ OutEdges(last.name)[to] = last.val.given[to]
  /\ to \in DOMAIN backend.hashes[last.name]
  /\ HashWeight(last.name, to) = last.val.given[to]

\* C11: no location has an edge to itself, in memory or as a field of its
\* own hash; an entry of routes for the location itself is passed over
\* without a panic or an error, and the other entries are applied.
C11_NoSelfEdge ==
  /\ \A n \in Names :
       /\ <<IDTable[n], IDTable[n]>> \notin DOMAIN graph.edges
       /\ n \notin DOMAIN backend.hashes[n]
  /\ last.op \in {"AddLocation", "AddRoutes"} => last.err # "panic"
  /\ Added => \A to \in DOMAIN last.val.given \ {last.name} : Applied(to)

C11_Witness ==
  /\ Added
  /\ last.name \in DOMAIN last.val.given
  /\ DOMAIN last.val.given \ {last.name} # {}
  /\ failures = 0

\* ------------------------------------------------------------ C12
\* the edge from -> to as the call that returned last found it
EdgeBefore(from, to) == <<IDTable[from], IDTable[to]>> \in DOMAIN last.val.before.edges

\* C12: an ordered pair of locations has at most one edge, with the weight
\* written last: after AddLocation or AddRoutes returned without error, each
\* destination given is listed by RoutesFrom, under one key of the edge map
\* and one field of the hash, both holding the weight just given, whatever
\* weight was there before.
C12_LastWeightWins ==
  Added =>
    \A to \in DOMAIN last.val.given \ {last.name} :
      /\ to \in RoutesFromResult(last.name)
      /\ graph.edges[<<IDTable[last.name], IDTable[to]>>] = last.val.given[to]
      /\ ParseFloat(HGETALL(backend, last.name)[to]) =
           [err |-> FALSE, val |-> last.val.given[to]]

C12_Witness ==
  /\ Added
  /\ last.op = "AddRoutes"
  /\ \E to \in DOMAIN last.val.given \ {last.name} :
       /\ EdgeBefore(last.name, to)
       /\ last.val.before.edges[<<IDTable[last.name], IDTable[to]>>]
            # last.val.given[to]
       /\ to \in DOMAIN last.val.before.hashes[last.name]
       /\ OutEdges(last.name)[to] = last.val.given[to]

\* ------------------------------------------------------------ C13
\* the call that returned last is an AddRoutes that found its location
Merged ==
  /\ lock = 0
  /\ last.op = "AddRoutes"
  /\ last.err \in {"nil", "PersistenceFailure"}

\* the destinations that AddRoutes was given, other than the location itself
Mentioned == DOMAIN last.val.given \ {last.name}

\* an edge of the graph that is not from the location to a destination given
OtherEdge(e) == ~(\E to \in Mentioned : e = <<IDTable[last.name], IDTable[to]>>)

\* C13: AddRoutes merges: an edge from its location to a destination that
\* routes does not mention, and an edge from any other location, is there
\* after the call exactly when it was there before, with the same weight, in
\* memory and in the backend.
C13_Merge ==
  Merged =>
    /\ \A e \in DOMAIN graph.edges \cup DOMAIN last.val.before.edges :
         OtherEdge(e) =>
           /\ e \in DOMAIN graph.edges
           /\ e \in DOMAIN last.val.before.edges
           /\ graph.edges[e] = last.val.before.edges[e]
    /\ \A n \in SoloNames :
         \A to \in DOMAIN backend.hashes[n] \cup DOMAIN last.val.before.hashes[n] :
           (n # last.name \/ to \notin Mentioned) =>
             /\ to \in DOMAIN backend.hashes[n]
             /\ to \in DOMAIN last.val.before.hashes[n]
             /\ backend.hashes[n][to] = last.val.before.hashes[n][to]

\* AddRoutes of one destination returned where its location had an edge to
\* another destination and another location had an edge too
C13_Witness ==
  /\ Merged
  /\ last.err = "nil"
  /\ Mentioned # {}
  /\ \E to \in SoloNames \ (Mentioned \cup {last.name}) :
       /\ to \in DOMAIN OutEdges(last.name)
       /\ to \in DOMAIN backend.hashes[last.name]
  /\ \E n \in SoloNames \ {last.name} : DOMAIN OutEdges(n) # {}

\* ------------------------------------------------------------ C14
\* the paths of g that start with path, end in tid and visit no node twice
RECURSIVE PathsTo(_, _, _)
PathsTo(g, path, tid) ==
  LET u == path[Len(path)]
      seen == {path[i] : i \in 1..Len(path)}
  IN IF u = tid THEN {path}
     ELSE UNION {PathsTo(g, Append(path, v), tid) : v \in Successors(g, u) \ seen}

\* the sum of the weights of the edges of path
RECURSIVE PathWeight(_, _)
PathWeight(g, path) ==
  IF Len(path) < 2 THEN 0
  ELSE g.edges[<<path[1], path[2]>>] + PathWeight(g, Tail(path))

\* the paths from fid to tid that no path from fid to tid weighs less than
LeastPaths(g, fid, tid) ==
  LET all == PathsTo(g, <<fid>>, tid)
  IN {q \in all : \A r \in all : PathWeight(g, q) <= PathWeight(g, r)}

NonNegative(g) == \A e \in DOMAIN g.edges : g.edges[e] >= 0

\* process p returns from RoutesBetween(from, to), both locations known
RoutesBetweenReturns(p) ==
  /\ pc[p] = "rb_body"
  /\ Steps(p)
  /\ op[p].name \in NodeNames(graph)
  /\ op[p].to \in NodeNames(graph)

\* C14: on a graph without negative weights, RoutesBetween(from, to) of two
\* known locations returns, without error, one route for each path from
\* "from" to "to" of least total weight and no other route, each with the
\* names of the path in order and with that least weight.
C14_AllLeastPaths ==
  [][\A p \in Procs :
      (RoutesBetweenReturns(p) /\ NonNegative(graph)) =>
        /\ last'.err = "nil"
        /\ last'.val =
             {[route |-> [i \in 1..Len(q) |-> graph.nodes[q[i]]],
               weight |-> PathWeight(graph, q)] :
                q \in LeastPaths(graph, IDTable[op[p].name], IDTable[op[p].to])}
     ]_vars

\* RoutesBetween returned two routes, one through a third location and one
\* direct, on a graph without negative weights
C14_Witness ==
  /\ last.op = "RoutesBetween"
  /\ last.err = "nil"
  /\ NonNegative(graph)
  /\ \E r \in last.val : Len(r.route) = 3
  /\ \E r \in last.val : Len(r.route) = 2

\* ------------------------------------------------------------ C15
\* C15: RoutesBetween(X, Y) of two known locations, Y not reachable from X
\* along the edges of the graph, returns the empty list and no error.
C15_UnreachableIsEmpty ==
  [][\A p \in Procs :
      (/\ RoutesBetweenReturns(p)
       /\ PathsTo(graph, <<IDTable[op[p].name]>>, IDTable[op[p].to]) = {}) =>
        /\ last'.err = "nil"
        /\ last'.val = {}
     ]_vars

\* ------------------------------------------------------------ C16
\* C16: RoutesBetween(X, X) of a known location returns one route and no
\* more, the path of X alone with weight 0, and no error, whatever edges
\* leave and reach X.
C16_SelfRoute ==
  [][\A p \in Procs :
      (RoutesBetweenReturns(p) /\ op[p].name = op[p].to) =>
        /\ last'.err = "nil"
        /\ last'.val = {[route |-> <<op[p].name>>, weight |-> 0]}
     ]_vars

\* ------------------------------------------------------------ C17
\* a read of the backend failed in the Restore that ran last
ReadFailed == \E c \in last.val : c[1] \in {"SMEMBERS", "HGETALL"}

\* a hash that Restore reads has a field whose text is no number
ParseFails ==
  \E loc \in SMEMBERS(backend) :
    \E k \in DOMAIN HGETALL(backend, loc) :
      ParseFloat(HGETALL(backend, loc)[k]).err

\* every name of the backend is a node, and every field of the hash of a
\* name (but the name itself) an edge with the weight of its text
Reconstructed ==
  \A loc \in SMEMBERS(backend) :
    /\ loc \in NodeNames(graph)
    /\ \A to \in DOMAIN HGETALL(backend, loc) \ {loc} :
         /\ to \in DOMAIN OutEdges(loc)
         /\ OutEdges(loc)[to] = HashWeight(loc, to)

\* C17: a failed read of the backend or a text that does not parse makes
\* Restore return an error, on which NewRouteServer panics: the server is
\* not up.  A server that is up after Restore holds the whole graph of the
\* backend; on a backend without names, no call failing, it is up with the
\* empty graph and Restore returned no error.
C17_ReadFailureIsFatal ==
  last.op = "Restore" =>
    /\ (ReadFailed \/ ParseFails) => (last.err # "nil" /\ server = "aborted")
    /\ server = "up" => Reconstructed
    /\ (SMEMBERS(backend) = {} /\ last.val = {}) =>
         (server = "up" /\ graph = NewGraph /\ last.err = "nil")

\* Restore read a text that is no number, no call having failed
C17_Witness ==
  /\ last.op = "Restore"
  /\ last.val = {}
  /\ ParseFails
  /\ server = "aborted"
  /\ last.err = "parse"

\* ------------------------------------------------------------ C20
\* C20: Restore does not return a nil store together with a nil error: the
\* process never serves with a nil store, also after a failed write of
\* AddLocation or AddRoutes inside Restore.
C20_NoNilStore == server # "nil"

\* ------------------------------------------------------------ C18
\* C18: a location is its name: AddLocation of a name that GetLocations
\* does not list does not fail with AlreadyExists, whatever identifiers
\* Location.ID gives the names that are listed (no backend call failing).
C18_IdentityByName ==
  [][\A p \in Procs :
      (/\ pc[p] = "al_check"
       /\ Steps(p)
       /\ failures' = 0
       /\ op[p].name \notin GetLocationsResult) =>
        last'.err # "AlreadyExists"
     ]_vars

\* ------------------------------------------------------------ C19
\* C19: when AddRoutes or RemoveRoutes returns an error, the handler answers
\* with status 400 and the text of that error.
C19_ErrorIs400 ==
  (/\ last.op \in {"AddRoutes", "RemoveRoutes"}
   /\ last.err \in {"NotFound", "PersistenceFailure"}) =>
    HandlerResponse = [status |-> "400", text |-> last.err]

====
